---- MODULE Spec2Model ----
(***************************************************************************)
(* A model of pytest-structlog (src/pytest_structlog.py): the EventList    *)
(* comparison operators, the matching predicates behind them, the level    *)
(* helpers, the capture sink and the life cycle of the `log` fixture.      *)
(*                                                                         *)
(* A Python dict is a function whose domain is its set of keys; a list is  *)
(* a sequence.  All keys and values are strings.                           *)
(***************************************************************************)
EXTENDS Integers, Sequences, FiniteSets, TLC

VARIABLES
    pc,                        \* "idle" | "test" | "done": where pytest is
    processors,                \* structlog's configured processors
    cache_logger_on_first_use, \* structlog's configured cache flag
    configure_patched,         \* structlog.configure(_once) is no_op
    original_processors,       \* the fixture's local of that name
    before,                    \* the configuration when the fixture started
    events,                    \* cap.events
    forwarded,                 \* events handed on to a later processor
    last                       \* the last call made by the test, with its outcome

vars == <<pc, processors, cache_logger_on_first_use, configure_patched,
          original_processors, before, events, forwarded, last>>

(***************************************************************************)
(* Bounds of the model.                                                    *)
(***************************************************************************)
MaxEvents == 2      \* log calls made during one test
MaxLen == 2         \* length of the actual list in a comparison
MaxExpected == 3    \* length of the expected list in a comparison

SeqsUpTo(S, n) == UNION {[1..m -> S] : m \in 0..n}

(***************************************************************************)
(* Dicts.                                                                  *)
(***************************************************************************)
EmptyDict == [k \in {} |-> ""]

\* the dict d with d[key] = value set (d[key] = value in Python)
SetItem(d, key, value) ==
    [k \in DOMAIN d \cup {key} |-> IF k = key THEN value ELSE d[k]]

Ev(message) == SetItem(EmptyDict, "event", message)

\* absent = object(): a value no dict holds
absent == "<absent>"

\* d.get(k, default)
Get(d, k, default) == IF k \in DOMAIN d THEN d[k] ELSE default

(***************************************************************************)
(* Levels: logging's numbers and names.                                    *)
(***************************************************************************)
DEBUG == 10
INFO == 20
WARNING == 30
ERROR == 40
CRITICAL == 50

\* a level argument is an int or a str
IntLevel(n) == [type |-> "int", n |-> n, s |-> ""]
StrLevel(s) == [type |-> "str", n |-> 0, s |-> s]

\* str.upper() on the strings of the model
UpperTable ==
    { <<"debug", "DEBUG">>, <<"info", "INFO">>, <<"INFO", "INFO">>,
      <<"Info", "INFO">>, <<"warning", "WARNING">>, <<"Warning", "WARNING">>,
      <<"warn", "WARN">>, <<"error", "ERROR">>, <<"critical", "CRITICAL">>,
      <<"unknown", "UNKNOWN">>, <<"Unknown", "UNKNOWN">>, <<"bogus", "BOGUS">> }

upper(s) == (CHOOSE t \in UpperTable : t[1] = s)[2]

\* logging._nameToLevel
NameToLevel ==
    ("CRITICAL" :> CRITICAL) @@ ("FATAL" :> CRITICAL) @@ ("ERROR" :> ERROR) @@
    ("WARN" :> WARNING) @@ ("WARNING" :> WARNING) @@ ("INFO" :> INFO) @@
    ("DEBUG" :> DEBUG) @@ ("NOTSET" :> 0)

\* logging.getLevelName(name) for a str: the number, or the str "Level <name>"
getLevelName(name) ==
    IF name \in DOMAIN NameToLevel
    THEN [isstr |-> FALSE, n |-> NameToLevel[name], s |-> ""]
    ELSE [isstr |-> TRUE, n |-> 0, s |-> "Level " \o name]

Returned(n) == [raised |-> FALSE, value |-> n, message |-> ""]
ValueError(msg) == [raised |-> TRUE, value |-> 0, message |-> msg]

level_to_number_placeholder(level) ==
    IF level.type = "int" THEN Returned(level.n)
    ELSE Returned(getLevelName(upper(level.s)).n)

level_to_number(level) ==
    IF level.type = "int" THEN Returned(level.n)
    ELSE LET number == getLevelName(upper(level.s))
         IN  IF number.isstr
             THEN ValueError("Unknown level name " \o level.s)
             ELSE Returned(number.n)

(***************************************************************************)
(* The matching predicates.                                                *)
(***************************************************************************)
is_submap(d1, d2) == \A k \in DOMAIN d1 : Get(d2, k, absent) = d1[k]

\* `d in it`, the iterator `it` standing before l2[pos]: the position of the
\* first element equal to d at or after pos (the iterator then stands behind
\* it), 0 when the iterator is exhausted without one
RECURSIVE InIterator(_, _, _)
InIterator(d, l2, pos) ==
    IF pos > Len(l2) THEN 0
    ELSE IF d = l2[pos] THEN pos
    ELSE InIterator(d, l2, pos + 1)

\* all(d in it for d in l1[i..]), the iterator standing before l2[pos]
RECURSIVE AllInIterator(_, _, _, _)
AllInIterator(l1, l2, i, pos) ==
    IF i > Len(l1) THEN TRUE
    ELSE LET p == InIterator(l1[i], l2, pos)
         IN  IF p = 0 THEN FALSE
             ELSE AllInIterator(l1, l2, i + 1, p + 1)

is_subseq_fresh_iterator(l1, l2) ==
    \A i \in 1..Len(l1) : InIterator(l1[i], l2, 1) # 0

is_subseq(l1, l2) == AllInIterator(l1, l2, 1, 1)

\* any(is_submap(d, e) for e in it), the iterator standing before l2[pos]
RECURSIVE AnySubmap(_, _, _)
AnySubmap(d, l2, pos) ==
    IF pos > Len(l2) THEN 0
    ELSE IF is_submap(d, l2[pos]) THEN pos
    ELSE AnySubmap(d, l2, pos + 1)

\* all(any(is_submap(d, e) for e in it) for d in l1[i..])
RECURSIVE AllAnySubmap(_, _, _, _)
AllAnySubmap(l1, l2, i, pos) ==
    IF i > Len(l1) THEN TRUE
    ELSE LET p == AnySubmap(l1[i], l2, pos)
         IN  IF p = 0 THEN FALSE
             ELSE AllAnySubmap(l1, l2, i + 1, p + 1)

is_subseq_of_submaps_fresh_iterator(l1, l2) ==
    \A i \in 1..Len(l1) : AnySubmap(l1[i], l2, 1) # 0

is_subseq_of_submaps(l1, l2) == AllAnySubmap(l1, l2, 1, 1)

(***************************************************************************)
(* EventList.                                                              *)
(***************************************************************************)
EventList(seq, partial_match) == [items |-> seq, partial_match |-> partial_match]

\* self._compare
compare(self, l1, l2) ==
    IF self.partial_match THEN is_subseq_of_submaps(l1, l2) ELSE is_subseq(l1, l2)

EventList_ge(self, other) == compare(self, other, self.items)

EventList_gt_not_strict(self, other) ==
    Len(self.items) >= Len(other) /\ compare(self, other, self.items)

EventList_gt(self, other) ==
    Len(self.items) > Len(other) /\ compare(self, other, self.items)

EventList_le(self, other) == compare(self, self.items, other)

EventList_lt(self, other) ==
    Len(self.items) < Len(other) /\ compare(self, self.items, other)

EventList_eq_no_length(self, other) == compare(self, other, self.items)

EventList_eq(self, other) ==
    Len(self.items) = Len(other) /\ compare(self, other, self.items)

\* EventList defines no __ne__: `!=` is list.__ne__, the element-wise one
EventList_ne(self, other) ==
    \/ Len(self.items) # Len(other)
    \/ \E i \in 1..Len(other) : self.items[i] # other[i]

NoList == EventList(<<>>, FALSE)

\* the events of a list whose level number is at least `number`
AtLeast(items, number) ==
    SelectSeq(items, LAMBDA event : level_to_number(StrLevel(event["level"])).value >= number)

filter_by_level_above(self, level) ==
    LET t == level_to_number(level)
    IN  IF t.raised
        THEN [raised |-> TRUE, message |-> t.message, list |-> NoList]
        ELSE [raised |-> FALSE, message |-> "",
              list |-> EventList(
                  SelectSeq(self.items, LAMBDA event :
                      level_to_number(StrLevel(event["level"])).value > t.value),
                  self.partial_match)]

\* the result is the new list, or the ValueError that level_to_number raised
\* for the threshold or for the level of an event of the list
filter_by_level(self, level) ==
    LET t == level_to_number(level)
        unknown == {i \in 1..Len(self.items) :
                       level_to_number(StrLevel(self.items[i]["level"])).raised}
        first == CHOOSE i \in unknown : \A j \in unknown : i <= j
    IN  IF t.raised
        THEN [raised |-> TRUE, message |-> t.message, list |-> NoList]
        ELSE IF unknown # {}
        THEN [raised |-> TRUE,
              message |-> level_to_number(StrLevel(self.items[first]["level"])).message,
              list |-> NoList]
        ELSE [raised |-> FALSE, message |-> "",
              list |-> EventList(AtLeast(self.items, t.value), self.partial_match)]

infos(self) == filter_by_level(self, IntLevel(INFO))
warnings(self) == filter_by_level(self, IntLevel(WARNING))
errors(self) == filter_by_level(self, IntLevel(ERROR))
criticals(self) == filter_by_level(self, IntLevel(CRITICAL))

(***************************************************************************)
(* StructuredLogCapture.                                                   *)
(***************************************************************************)
\* cap.events and cap.partial_events
cap_events == EventList(events, FALSE)
partial_events == EventList(events, TRUE)
TheList(partial_match) == IF partial_match THEN partial_events ELSE cap_events

process_keep_level(method_name, event_dict) ==
    /\ events' = Append(events, SetItem(event_dict, "level",
                                        Get(event_dict, "level", method_name)))
    /\ forwarded' = forwarded

\* the sink: tags the event, appends it, raises DropEvent
process(method_name, event_dict) ==
    /\ events' = Append(events, SetItem(event_dict, "level", method_name))
    /\ forwarded' = forwarded

has(message, context) ==
    LET ctx == SetItem(context, "event", message)
    IN  \E i \in 1..Len(events) : is_submap(ctx, events[i])

(***************************************************************************)
(* The inputs of the model.                                                *)
(***************************************************************************)
LogMethods == {"debug", "info", "warning", "error"}

\* what a log call hands to the processors; the last one passes a level
CallDicts ==
    { Ev("a"),
      SetItem(Ev("a"), "k", "v"),
      SetItem(Ev("b"), "level", "bogus") }

Messages == {"a", "b"}

Contexts ==
    { EmptyDict,
      SetItem(EmptyDict, "k", "v"),
      SetItem(EmptyDict, "k", "w"),
      SetItem(EmptyDict, "level", "info"),
      SetItem(EmptyDict, "event", "b") }

Thresholds ==
    { IntLevel(0), IntLevel(INFO), IntLevel(25), IntLevel(ERROR), IntLevel(60),
      StrLevel("info"), StrLevel("INFO"), StrLevel("Warning"), StrLevel("warn"),
      StrLevel("critical"), StrLevel("unknown"), StrLevel("Unknown") }

Wrappers == {"infos", "warnings", "errors", "criticals"}

\* configurations an application gives structlog
ProcessorLists ==
    { <<"KeyValueRenderer">>,
      <<"TimeStamper", "PositionalArgumentsFormatter", "JSONRenderer">> }

\* structlog's configuration before anyone configures it
DefaultProcessors == <<"merge_contextvars", "add_log_level", "ConsoleRenderer">>

(***************************************************************************)
(* The fixture and the test that uses it.  A test is a sequence of         *)
(* statements: a log call, a configure call, or an `assert` (or            *)
(* `pytest.raises`) around one call on the captured list, whose outcome    *)
(* the statement consumes before the next statement runs.                  *)
(***************************************************************************)
CallOps == {"has", "filter_by_level", "infos", "warnings", "errors", "criticals",
            "ge", "gt", "le", "lt", "eq", "ne"}

\* the outcome of a call is still to be consumed by its statement
Pending == last.op \in CallOps

Init ==
    /\ pc = "idle"
    /\ processors = DefaultProcessors
    /\ cache_logger_on_first_use = FALSE
    /\ configure_patched = FALSE
    /\ original_processors = <<>>
    /\ before = [processors |-> DefaultProcessors, cache_logger_on_first_use |-> FALSE]
    /\ events = <<>>
    /\ forwarded = <<>>
    /\ last = [op |-> "none"]

\* structlog.configure called by the application, outside a test
AppConfigure(procs, cache) ==
    /\ pc # "test"
    /\ ~configure_patched
    /\ processors' = procs
    /\ cache_logger_on_first_use' = cache
    /\ pc' = "idle"
    /\ UNCHANGED <<configure_patched, original_processors, before, events,
                   forwarded, last>>

\* the fixture up to its yield
Setup ==
    /\ pc # "test"
    /\ original_processors' = processors
    /\ processors' =
           SelectSeq(processors, LAMBDA p :
               p \in {"PositionalArgumentsFormatter", "merge_contextvars"})
           \o <<"cap.process">>
    /\ cache_logger_on_first_use' = FALSE
    /\ configure_patched' = TRUE
    /\ before' = [processors |-> processors,
                  cache_logger_on_first_use |-> cache_logger_on_first_use]
    /\ events' = <<>>
    /\ forwarded' = <<>>
    /\ last' = [op |-> "setup"]
    /\ pc' = "test"

\* structlog.configure or structlog.configure_once called by the code under test
TestConfigure(which, procs, cache) ==
    /\ pc = "test"
    /\ ~Pending
    /\ IF configure_patched
       THEN UNCHANGED <<processors, cache_logger_on_first_use>>
       ELSE processors' = procs /\ cache_logger_on_first_use' = cache
    /\ last' = [op |-> which]
    /\ UNCHANGED <<pc, configure_patched, original_processors, before, events,
                   forwarded>>

\* a log call of the code under test: the processors run, the sink last
LogCall(method_name, event_dict) ==
    /\ pc = "test"
    /\ ~Pending
    /\ Len(events) < MaxEvents
    /\ processors[Len(processors)] = "cap.process"
    /\ process(method_name, event_dict)
    /\ last' = [op |-> "log", method_name |-> method_name, event_dict |-> event_dict]
    /\ UNCHANGED <<pc, processors, cache_logger_on_first_use, configure_patched,
                   original_processors, before>>

Has(message, context) ==
    /\ pc = "test"
    /\ ~Pending
    /\ last' = [op |-> "has", message |-> message, context |-> context,
                result |-> has(message, context)]
    /\ UNCHANGED <<pc, processors, cache_logger_on_first_use, configure_patched,
                   original_processors, before, events, forwarded>>

FilterByLevel(partial_match, level) ==
    /\ pc = "test"
    /\ ~Pending
    /\ last' = [op |-> "filter_by_level", partial_match |-> partial_match,
                level |-> level,
                result |-> filter_by_level(TheList(partial_match), level)]
    /\ UNCHANGED <<pc, processors, cache_logger_on_first_use, configure_patched,
                   original_processors, before, events, forwarded>>

Wrapper(partial_match, name) ==
    /\ pc = "test"
    /\ ~Pending
    /\ last' = [op |-> name, partial_match |-> partial_match,
                result |-> CASE name = "infos" -> infos(TheList(partial_match))
                             [] name = "warnings" -> warnings(TheList(partial_match))
                             [] name = "errors" -> errors(TheList(partial_match))
                             [] name = "criticals" -> criticals(TheList(partial_match))]
    /\ UNCHANGED <<pc, processors, cache_logger_on_first_use, configure_patched,
                   original_processors, before, events, forwarded>>

\* the statement takes the outcome of its call
EndStatement ==
    /\ pc = "test"
    /\ Pending
    /\ last' = [op |-> "assert"]
    /\ UNCHANGED <<pc, processors, cache_logger_on_first_use, configure_patched,
                   original_processors, before, events, forwarded>>

\* the fixture after its yield, then monkeypatch's undo
Teardown(outcome) ==
    /\ pc = "test"
    /\ processors' = original_processors
    /\ configure_patched' = FALSE
    /\ last' = [op |-> "teardown", outcome |-> outcome]
    /\ pc' = "done"
    /\ UNCHANGED <<cache_logger_on_first_use, original_processors, before, events,
                   forwarded>>

Next ==
    \/ \E procs \in ProcessorLists, cache \in BOOLEAN : AppConfigure(procs, cache)
    \/ Setup
    \/ \E which \in {"configure", "configure_once"} : TestConfigure(which, <<>>, TRUE)
    \/ ~Pending /\ \E m \in LogMethods, d \in CallDicts : LogCall(m, d)
    \/ ~Pending /\ \E m \in Messages, c \in Contexts : Has(m, c)
    \/ ~Pending /\ \E pm \in BOOLEAN, level \in Thresholds : FilterByLevel(pm, level)
    \/ ~Pending /\ \E pm \in BOOLEAN, w \in Wrappers : Wrapper(pm, w)
    \/ EndStatement
    \/ \E outcome \in {"passed", "failed"} : Teardown(outcome)

Spec == Init /\ [][Next]_vars

(***************************************************************************)
(* Comparisons made by a test on the list it captured.                     *)
(***************************************************************************)
Info(message) == SetItem(Ev(message), "level", "info")

\* captured events
CmpEvents == { Info("a"), SetItem(Info("a"), "k", "v"), Info("b") }

\* the dicts of an expected list
ExpDicts == { EmptyDict, Ev("a"), Info("a"), SetItem(Info("a"), "k", "v"), Info("b") }

ExpectedLists == SeqsUpTo(ExpDicts, MaxExpected)

\* a test that has logged the events of one of the lists
InitCmp ==
    /\ pc = "test"
    /\ processors = <<"merge_contextvars", "cap.process">>
    /\ cache_logger_on_first_use = FALSE
    /\ configure_patched = TRUE
    /\ original_processors = DefaultProcessors
    /\ before = [processors |-> DefaultProcessors, cache_logger_on_first_use |-> FALSE]
    /\ events \in SeqsUpTo(CmpEvents, MaxLen)
    /\ forwarded = <<>>
    /\ last = [op |-> "setup"]

Compared(op, partial_match, other, result) ==
    /\ pc = "test"
    /\ ~Pending
    /\ last' = [op |-> op, partial_match |-> partial_match, other |-> other,
                result |-> result]
    /\ UNCHANGED <<pc, processors, cache_logger_on_first_use, configure_patched,
                   original_processors, before, events, forwarded>>

CompareGe(pm, other) == Compared("ge", pm, other, EventList_ge(TheList(pm), other))
CompareGt(pm, other) == Compared("gt", pm, other, EventList_gt(TheList(pm), other))
CompareLe(pm, other) == Compared("le", pm, other, EventList_le(TheList(pm), other))
CompareLt(pm, other) == Compared("lt", pm, other, EventList_lt(TheList(pm), other))
CompareEq(pm, other) == Compared("eq", pm, other, EventList_eq(TheList(pm), other))
CompareNe(pm, other) == Compared("ne", pm, other, EventList_ne(TheList(pm), other))

NextCmp ==
    \/ ~Pending /\ \E pm \in BOOLEAN, other \in ExpectedLists : CompareGe(pm, other)
    \/ ~Pending /\ \E pm \in BOOLEAN, other \in ExpectedLists : CompareGt(pm, other)
    \/ ~Pending /\ \E pm \in BOOLEAN, other \in ExpectedLists : CompareLe(pm, other)
    \/ ~Pending /\ \E pm \in BOOLEAN, other \in ExpectedLists : CompareLt(pm, other)
    \/ ~Pending /\ \E pm \in BOOLEAN, other \in ExpectedLists : CompareEq(pm, other)
    \/ ~Pending /\ \E pm \in BOOLEAN, other \in ExpectedLists : CompareNe(pm, other)
    \/ EndStatement

SpecCmp == InitCmp /\ [][NextCmp]_vars

(***************************************************************************)
(* Reference notions the claims are stated with.                           *)
(***************************************************************************)
\* the strictly increasing choices of positions of A, one per element of B
Positions(B, A) ==
    {f \in [1..Len(B) -> 1..Len(A)] : \A i, j \in 1..Len(B) : i < j => f[i] < f[j]}

\* B is found in A at increasing positions, by value
EmbedsEqual(B, A) == \E f \in Positions(B, A) : \A k \in 1..Len(B) : A[f[k]] = B[k]

\* B is found in A at increasing positions, each element a submap of A's
EmbedsSubmaps(B, A) ==
    \E f \in Positions(B, A) : \A k \in 1..Len(B) : is_submap(B[k], A[f[k]])

\* the list a comparison was made on
Self == TheList(last.partial_match)

\* the level number of a known level
KnownLevel(level) == level.type = "int" \/ upper(level.s) \in DOMAIN NameToLevel
NumberOf(level) == IF level.type = "int" THEN level.n ELSE NameToLevel[upper(level.s)]
EventNumber(event) == NameToLevel[upper(event["level"])]

\* R holds exactly the elements of A at the positions in `keep`, in A's order
Selects(R, A, keep) ==
    /\ Len(R) = Cardinality(keep)
    /\ \E f \in [1..Len(R) -> keep] :
           /\ \A i, j \in 1..Len(R) : i < j => f[i] < f[j]
           /\ \A k \in 1..Len(R) : R[k] = A[f[k]]

(***************************************************************************)
(* C1.  In exact mode A >= B is true exactly when B embeds in A: strictly  *)
(* increasing positions of A, one per element of B, holding equal values.  *)
(* Order counts, an event of A serves one element of B, an empty B         *)
(* matches.                                                                *)
(***************************************************************************)
C1_ExactSubsequence ==
    (last.op = "ge" /\ ~last.partial_match) =>
        /\ last.result = EmbedsEqual(last.other, events)
        /\ (last.other = <<>> => last.result)

\* [a, a] >= [a, a] holds; the same state shows [a, a] >= [a, a, a] must not
C1_Witness ==
    /\ last.op = "ge" /\ ~last.partial_match /\ last.result
    /\ Len(last.other) = 2 /\ last.other[1] = last.other[2]
    /\ ~EventList_ge(Self, last.other \o <<last.other[1]>>)

(***************************************************************************)
(* C2.  In partial mode A >= B is true exactly when some sub-sequence of A *)
(* has each element of B as a submap of its element: the greedy scan is    *)
(* neither too generous nor too strict.                                    *)
(***************************************************************************)
C2_SubmapSubsequence ==
    (last.op = "ge" /\ last.partial_match) =>
        last.result = EmbedsSubmaps(last.other, events)

\* an expected element that matches two events, the first of which the
\* scan takes, and the next expected element still finds its event
C2_Witness ==
    /\ last.op = "ge" /\ last.partial_match /\ last.result
    /\ Len(last.other) = 2 /\ Len(events) = 2
    /\ is_submap(last.other[1], events[1]) /\ is_submap(last.other[1], events[2])
    /\ ~is_submap(last.other[2], events[1])
    /\ last.other[2] # events[2]

(***************************************************************************)
(* C4.  As claimed: A == B exactly when the lengths are equal and both     *)
(* A >= B and A <= B hold, in either mode.                                 *)
(***************************************************************************)
C4_Claimed ==
    last.op = "eq" =>
        last.result = (/\ Len(events) = Len(last.other)
                       /\ EventList_ge(Self, last.other)
                       /\ EventList_le(Self, last.other))

(***************************************************************************)
(* C4, amended.  A == B exactly when the lengths are equal and A >= B; in  *)
(* exact mode that is also exactly when the lengths are equal and both     *)
(* A >= B and A <= B hold.                                                 *)
(***************************************************************************)
C4_Amended ==
    last.op = "eq" =>
        /\ last.result = (Len(events) = Len(last.other) /\ EventList_ge(Self, last.other))
        /\ ~last.partial_match =>
               last.result = (/\ Len(events) = Len(last.other)
                              /\ EventList_ge(Self, last.other)
                              /\ EventList_le(Self, last.other))

\* a partial-mode list equal to an expected list it is not contained in
C4_Witness ==
    /\ last.op = "eq" /\ last.partial_match /\ last.result
    /\ Len(events) > 0
    /\ ~EventList_le(Self, last.other)

(***************************************************************************)
(* C5.  A != B is the negation of A == B, in either mode.                  *)
(***************************************************************************)
C5_NeNegatesEq ==
    last.op = "ne" => last.result = ~EventList_eq(Self, last.other)

(***************************************************************************)
(* C6.  The length guards: == is >= with equal lengths, > is >= with a     *)
(* longer A, < is <= with a shorter A; so lists of equal length are never  *)
(* > or <, and lists of different lengths are never ==.                    *)
(***************************************************************************)
C6_LengthGuards ==
    /\ last.op = "eq" =>
           /\ last.result = (Len(events) = Len(last.other) /\ EventList_ge(Self, last.other))
           /\ Len(events) # Len(last.other) => ~last.result
    /\ last.op = "gt" =>
           /\ last.result = (Len(events) > Len(last.other) /\ EventList_ge(Self, last.other))
           /\ Len(events) = Len(last.other) => ~last.result
    /\ last.op = "lt" =>
           /\ last.result = (Len(events) < Len(last.other) /\ EventList_le(Self, last.other))
           /\ Len(events) = Len(last.other) => ~last.result

\* equal lengths, containment holds, and > is false
C6_Witness ==
    /\ last.op = "gt" /\ ~last.result
    /\ Len(events) = 2 /\ Len(last.other) = 2
    /\ EventList_ge(Self, last.other)

(***************************************************************************)
(* C3.  has(message, **context) is true exactly when some captured event   *)
(* has the message as its 'event' and holds every key given in context     *)
(* with an equal value.                                                    *)
(***************************************************************************)
C3_HasMatchesGivenContext ==
    last.op = "has" =>
        last.result =
            \E i \in 1..Len(events) :
                /\ "event" \in DOMAIN events[i] /\ events[i]["event"] = last.message
                /\ \A k \in DOMAIN last.context :
                       k \in DOMAIN events[i] /\ events[i][k] = last.context[k]

(***************************************************************************)
(* C7.  filter_by_level with a known level gives a list with the flag of   *)
(* the list it was called on, holding exactly its events whose level       *)
(* number is at least the threshold, in their order, and leaves the list   *)
(* as it was; a higher threshold gives a subsequence of what a lower one   *)
(* gives; infos, warnings, errors and criticals are the cases INFO,        *)
(* WARNING, ERROR and CRITICAL.                                            *)
(***************************************************************************)
C7_FilterState ==
    /\ (last.op = "filter_by_level" /\ KnownLevel(last.level)) =>
           /\ ~last.result.raised
           /\ last.result.list.partial_match = last.partial_match
           /\ Selects(last.result.list.items, events,
                      {i \in 1..Len(events) : EventNumber(events[i]) >= NumberOf(last.level)})
           /\ \A lower \in {t \in Thresholds : KnownLevel(t)} :
                  NumberOf(lower) <= NumberOf(last.level) =>
                      is_subseq(last.result.list.items,
                                filter_by_level(Self, lower).list.items)
    /\ last.op \in Wrappers =>
           LET threshold == CASE last.op = "infos" -> INFO
                              [] last.op = "warnings" -> WARNING
                              [] last.op = "errors" -> ERROR
                              [] last.op = "criticals" -> CRITICAL
           IN  /\ ~last.result.raised
               /\ last.result.list.partial_match = last.partial_match
               /\ Selects(last.result.list.items, events,
                          {i \in 1..Len(events) : EventNumber(events[i]) >= threshold})

\* C7: what C7_FilterState says of every call, and no call of filter_by_level
\* or of one of its four wrappers changes the list it is called on
C7_FilterByLevel ==
    /\ []C7_FilterState
    /\ [][last'.op \in {"filter_by_level"} \cup Wrappers => events' = events]_vars

\* a threshold given by name that one event meets exactly and another misses
C7_Witness ==
    /\ last.op = "filter_by_level" /\ last.level.type = "str"
    /\ last.partial_match
    /\ Len(events) = 2 /\ Len(last.result.list.items) = 1
    /\ EventNumber(events[2]) = NumberOf(last.level)
    /\ last.result.list.items[1] = events[2]

(***************************************************************************)
(* C8.  level_to_number raises for a name that is no level name in any     *)
(* letter case, with the message 'Unknown level name ' and the name as it  *)
(* was given; filter_by_level then produces no list and leaves the list    *)
(* as it was.  An int is returned as it is, a known name gives its number. *)
(***************************************************************************)
C8_LevelState ==
    /\ (last.op = "filter_by_level" /\ ~KnownLevel(last.level)) =>
           /\ last.result.raised
           /\ last.result.message = "Unknown level name " \o last.level.s
           /\ last.result.list = NoList
    /\ (last.op = "filter_by_level" /\ KnownLevel(last.level)) =>
           /\ ~level_to_number(last.level).raised
           /\ level_to_number(last.level).value = NumberOf(last.level)

\* C8: what C8_LevelState says of every call, and a call of filter_by_level
\* that raises leaves the list as it was
C8_UnknownLevelRaises ==
    /\ []C8_LevelState
    /\ [][(last'.op = "filter_by_level" /\ last'.result.raised) => events' = events]_vars

C8_Witness ==
    /\ last.op = "filter_by_level"
    /\ last.level = StrLevel("Unknown")
    /\ last.result.raised
    /\ last.result.message = "Unknown level name Unknown"
    /\ Len(events) = 2

(***************************************************************************)
(* C9.  Capture appends and keeps order: a test starts with no events;     *)
(* every log call appends its event mapping, 'level' set to the name of    *)
(* the method (over a 'level' the caller passed), and forwards nothing;    *)
(* nothing else the test does changes the captured events.                 *)
(***************************************************************************)
C9_AppendOnly ==
    /\ [](last.op = "setup" => events = <<>>)
    /\ [](forwarded = <<>>)
    /\ [][last'.op = "log" =>
            /\ events' = Append(events, [k \in DOMAIN last'.event_dict \cup {"level"} |->
                                            IF k = "level" THEN last'.method_name
                                            ELSE last'.event_dict[k]])
            /\ forwarded' = forwarded]_vars
    /\ [][(pc = "test" /\ last'.op # "log") => events' = events]_vars

\* the second call of a test passed a level of its own
C9_Witness ==
    /\ last.op = "log" /\ Len(events) = 2
    /\ "level" \in DOMAIN last.event_dict
    /\ last.event_dict["level"] # last.method_name
    /\ events[2]["level"] = last.method_name
    /\ events[1] # events[2]

(***************************************************************************)
(* C10.  During a test the sink is the last processor, whatever the code   *)
(* under test configures; after the test the sink is gone and the          *)
(* configuration is the one in force before the fixture ran: the           *)
(* processors and every other setting the fixture changed.                 *)
(***************************************************************************)
C10_ConfigurationRestored ==
    /\ pc = "test" =>
           /\ processors[Len(processors)] = "cap.process"
           /\ configure_patched
    /\ pc = "done" =>
           /\ \A i \in 1..Len(processors) : processors[i] # "cap.process"
           /\ ~configure_patched
           /\ processors = before.processors
           /\ cache_logger_on_first_use = before.cache_logger_on_first_use

====
